---- MODULE Spec2Model ----
(***************************************************************************)
(* Model of ripplebase/account/dao.py: the data-access objects that route  *)
(* reads and writes of versioned fields (account limits, exchange-rate     *)
(* values, exchange -> rate assignments) through version records carrying  *)
(* an is_active flag.                                                      *)
(*                                                                         *)
(* Storage is modelled as three append-only tables (sequences of rows; a   *)
(* row's index is its identity).  Every accessor (DAO) instance is bound   *)
(* to one parent row (data_obj) and, for AccountDAO and ExchangeRateDAO,   *)
(* carries its own lazily filled cache of the active version (_limits,     *)
(* _value).  db.DAO, the mapped classes and the tables are not part of     *)
(* dao.py; the few things the model needs from them are marked as such.    *)
(***************************************************************************)
EXTENDS Integers, Sequences, FiniteSets, TLC

VARIABLES
    account_limits,         \* table of AccountLimits rows
    account,                \* Account rows: the direct column balance
    _limits,                \* AccountDAO instance -> cached active limits
    exchange_rate,          \* ExchangeRate rows by name: the direct column client
    exchange_rate_value,    \* table of ExchangeRateValue rows
    _value,                 \* ExchangeRateDAO instance -> cached active value
    exchange_exchange_rate, \* table of ExchangeExchangeRate rows
    pc,                     \* DAO instance -> position inside a stepwise write
    pending,                \* DAO instance -> kwargs of the stepwise write
    call,                   \* the last operation invoked and its arguments
    result,                 \* what that operation returned or raised
    clock,                  \* logical time: operations carried out so far
    history                 \* parent -> what was done to it so far (history
                            \*   variable): pure = only versioned writes, n of
                            \*   them, the last one's arguments

vars == <<account_limits, account, _limits, exchange_rate, exchange_rate_value,
          _value, exchange_exchange_rate, pc, pending, call, result, clock,
          history>>

----------------------------------------------------------------------------
(* Bounds and input domains *)

MaxOps == 3               \* operations in a run (the logical clock stops there)

None == 0                 \* Python None: an absent object or field value
Unset == -1               \* the instance has no _limits / _value attribute yet

Accounts == {"A1", "A2"}
RateNames == {"R1", "R2"}          \* ExchangeRate names a caller may use
Exchanges == {"X1", "X2"}

AccountDAOs == {"a1", "a2", "a3"}
ExchangeRateDAOs == {"r1", "r2", "r3"}

\* self.data_obj: the parent row an accessor instance is bound to
data_obj ==
    [d \in AccountDAOs \cup ExchangeRateDAOs |->
        CASE d = "a1" -> "A1" [] d = "a2" -> "A1" [] d = "a3" -> "A2"
          [] d = "r1" -> "R1" [] d = "r2" -> "R1" [] d = "r3" -> "R2"]

\* the instances that share their parent with another instance
SharedAccountDAOs == {"a1", "a2"}
SharedExchangeRateDAOs == {"r1", "r2"}

UpperValues == {100}
LowerValues == {-20}
TimeValues == {90}
BalanceValues == {5}
RateValues == {3}
ClientValues == {1}

\* all keyword-argument dictionaries over the fields F, values drawn from dom[f]
Kwargs(F, dom) ==
    UNION {{k \in [S -> UNION {dom[f] : f \in S}] : \A f \in S : k[f] \in dom[f]}
           : S \in SUBSET F}

----------------------------------------------------------------------------
(* Results and calls (uniform record shapes) *)

Returned(v) == [kind |-> "value", value |-> v, name |-> "", error |-> "", rows |-> {}]
ReturnedName(n) == [kind |-> "value", value |-> None, name |-> n, error |-> "", rows |-> {}]
ReturnedRows(S) == [kind |-> "rows", value |-> None, name |-> "", error |-> "", rows |-> S]
Raised(e) == [kind |-> "error", value |-> None, name |-> "", error |-> e, rows |-> {}]
Done == [kind |-> "none", value |-> None, name |-> "", error |-> "", rows |-> {}]

Call(cls, dao, parent, op, attr, value, name, kwargs) ==
    [cls |-> cls, dao |-> dao, parent |-> parent, op |-> op, attr |-> attr,
     value |-> value, name |-> name, kwargs |-> kwargs]

NoKwargs == [f \in {} |-> None]

\* the history of parent p after a versioned write with arguments kw, and
\* after any other operation on it
HistWrite(p, kw) ==
    [history EXCEPT ![p] = [pure |-> @.pure, n |-> IF @.pure THEN @.n + 1 ELSE @.n,
                            last |-> kw]]
HistOther(p) == [history EXCEPT ![p].pure = FALSE]

\* Query.first(): the rows a query without ORDER BY may hand back first
first(S) == IF S = {} THEN {None} ELSE S


----------------------------------------------------------------------------
(* AccountDAO *)

AccountDAO_db_fields ==
    {"balance", "upper_limit", "lower_limit", "limits_effective_time", "limits_expiry_time"}

\* db_fields entries mapped to None
AccountDAO_indirect ==
    {"upper_limit", "lower_limit", "limits_effective_time", "limits_expiry_time"}


limits_map ==
    [f \in {"upper_limit", "lower_limit", "limits_effective_time", "limits_expiry_time"} |->
        CASE f = "upper_limit" -> "upper_limit"
          [] f = "lower_limit" -> "lower_limit"
          [] f = "limits_effective_time" -> "effective_time"
          [] f = "limits_expiry_time" -> "expiry_time"]

AccountFieldValues ==
    [f \in AccountDAO_db_fields |->
        CASE f = "upper_limit" -> UpperValues
          [] f = "lower_limit" -> LowerValues
          [] f \in {"limits_effective_time", "limits_expiry_time"} -> TimeValues
          [] OTHER -> BalanceValues]

\* AccountLimits(): a new row as the mapped class and its table give it:
\* is_active and effective_time come from the column defaults
AccountLimits(now) ==
    [account |-> "", upper_limit |-> None, lower_limit |-> None,
     effective_time |-> now, expiry_time |-> None, is_active |-> TRUE]

LimitsOf(tbl, a) == {i \in DOMAIN tbl : tbl[i].account = a}
\* (mutant) the query for the active limits leaves the account out
ActiveLimits_any_account(tbl, a) == {i \in DOMAIN tbl : tbl[i].is_active}
ActiveLimits(tbl, a) == {i \in LimitsOf(tbl, a) : tbl[i].is_active}

\* self.limits (property getter): the values it may resolve to for instance d
_get_active_limits(d) ==
    IF _limits[d] = Unset
    THEN first(ActiveLimits(account_limits, data_obj[d]))
    ELSE {_limits[d]}

\* new_limits, lines 121-125: the old limits, when there are any, go inactive
new_limits_deactivate(tbl, l) ==
    IF l # None THEN [tbl EXCEPT ![l].is_active = FALSE] ELSE tbl

\* new_limits, lines 126-132: the new row, linked to the account, with the
\* old row's attributes other than effective_time copied
new_limits_insert(tbl, a, l) ==
    LET fresh == [AccountLimits(clock + 1) EXCEPT !.account = a]
        attrs_to_copy == {limits_map[k] : k \in DOMAIN limits_map} \ {"effective_time"}
        new == IF l # None
               THEN [f \in DOMAIN fresh |->
                        IF f \in attrs_to_copy THEN tbl[l][f] ELSE fresh[f]]
               ELSE fresh
    IN Append(tbl, new)

\* new_limits on an instance whose self.limits is l: the table afterwards
\* (self.limits is then the appended row)
new_limits(tbl, a, l) == new_limits_insert(new_limits_deactivate(tbl, l), a, l)

\* The state an AccountDAO method works on: the limits table, the instance's
\* self.limits and the account's direct columns.
AccountState(tbl, l, row) == [tbl |-> tbl, limits |-> l, row |-> row]

\* db.DAO.__setattr__ for a direct field: the column of data_obj is set
DAO_setattr(row, attr, value) == [row EXCEPT ![attr] = value]

AccountDAO_setattr(st, a, attr, value) ==
    IF attr \in DOMAIN limits_map
    THEN LET st1 == IF st.limits = None
                    THEN [st EXCEPT !.tbl = new_limits(st.tbl, a, None),
                                    !.limits = Len(st.tbl) + 1]
                    ELSE st
         IN [st1 EXCEPT !.tbl[st1.limits][limits_map[attr]] = value]
    ELSE [st EXCEPT !.row = DAO_setattr(st.row, attr, value)]

\* db.DAO.update: every keyword argument is assigned through __setattr__
RECURSIVE AccountDAO_setattrs(_, _, _)
AccountDAO_setattrs(st, a, kwargs) ==
    IF DOMAIN kwargs = {} THEN st
    ELSE LET k == CHOOSE f \in DOMAIN kwargs : TRUE
             rest == [f \in DOMAIN kwargs \ {k} |-> kwargs[f]]
         IN AccountDAO_setattrs(AccountDAO_setattr(st, a, k, kwargs[k]), a, rest)

\* (mutant) update forgets new_limits and only assigns the arguments
AccountDAO_update_without_new_limits(st, a, kwargs) ==
    AccountDAO_setattrs(st, a, kwargs)

\* (mutant) update retires the old limits without creating their successor
\* and assigns the arguments to the retired row
AccountDAO_update_deactivate_only(st, a, kwargs) ==
    LET limits_args == DOMAIN kwargs \cap DOMAIN limits_map
        st1 == IF limits_args # {}
               THEN IF st.limits # None
                    THEN [st EXCEPT !.tbl = new_limits_deactivate(st.tbl, st.limits)]
                    ELSE [st EXCEPT !.tbl = new_limits(st.tbl, a, None),
                                    !.limits = Len(st.tbl) + 1]
               ELSE st
    IN AccountDAO_setattrs(st1, a, kwargs)

\* (mutant) update creates new limits whatever the arguments
AccountDAO_update_always_new_limits(st, a, kwargs) ==
    LET l == IF st.limits = Unset THEN None ELSE st.limits
        st1 == [st EXCEPT !.tbl = new_limits(st.tbl, a, l),
                          !.limits = Len(st.tbl) + 1]
    IN AccountDAO_setattrs(st1, a, kwargs)

AccountDAO_update(st, a, kwargs) ==
    LET limits_args == DOMAIN kwargs \cap DOMAIN limits_map
        st1 == IF limits_args # {}
               THEN [st EXCEPT !.tbl = new_limits(st.tbl, a, st.limits),
                               !.limits = Len(st.tbl) + 1]
               ELSE st
    IN AccountDAO_setattrs(st1, a, kwargs)

AccountDAO_getattr(st, attr) ==
    IF st.limits # None THEN st.tbl[st.limits][limits_map[attr]] ELSE None

\* db.DAO.filter: the rows whose columns equal the criteria
DAO_filter(rows, kwargs) ==
    {p \in DOMAIN rows :
        \A f \in DOMAIN kwargs \cap DOMAIN rows[p] : rows[p][f] = kwargs[f]}

\* (mutant) filter refuses limits criteria only when one of them has a value
AccountDAO_filter_only_valued(kwargs) ==
    LET limits_args == {f \in DOMAIN kwargs \cap DOMAIN limits_map : kwargs[f] # None}
    IN IF limits_args # {}
       THEN Raised("ValueError")
       ELSE ReturnedRows(DAO_filter(account, kwargs))

\* AccountDAO.filter (class method): criteria on limits fields are refused,
\* anything else goes to db.DAO.filter
AccountDAO_filter(kwargs) ==
    LET limits_args == DOMAIN kwargs \cap DOMAIN limits_map
    IN IF limits_args # {}
       THEN Raised("ValueError")
       ELSE ReturnedRows(DAO_filter(account, kwargs))

----------------------------------------------------------------------------
(* AccountDAO operations, each one call on one instance *)

AccountUpdate(d, kwargs) ==
    LET a == data_obj[d]
        touches == DOMAIN kwargs \cap DOMAIN limits_map # {}
    IN /\ pc[d] = "idle"
       /\ \E l \in (IF touches THEN _get_active_limits(d) ELSE {_limits[d]}) :
            LET st == AccountDAO_update(AccountState(account_limits, l, account[a]), a, kwargs)
            IN /\ account_limits' = st.tbl
               /\ _limits' = [_limits EXCEPT ![d] = st.limits]
               /\ account' = [account EXCEPT ![a] = st.row]
       /\ call' = Call("AccountDAO", d, a, "update", "", None, "", kwargs)
       /\ result' = Done
       /\ history' = IF touches THEN HistWrite(a, kwargs) ELSE HistOther(a)
       /\ UNCHANGED <<exchange_rate, exchange_rate_value, _value,
                      exchange_exchange_rate, pc, pending>>

AccountSetattr(d, attr, value) ==
    LET a == data_obj[d]
        touches == attr \in DOMAIN limits_map
    IN /\ pc[d] = "idle"
       /\ \E l \in (IF touches THEN _get_active_limits(d) ELSE {_limits[d]}) :
            LET st == AccountDAO_setattr(AccountState(account_limits, l, account[a]), a, attr, value)
            IN /\ account_limits' = st.tbl
               /\ _limits' = [_limits EXCEPT ![d] = st.limits]
               /\ account' = [account EXCEPT ![a] = st.row]
       /\ call' = Call("AccountDAO", d, a, "setattr", attr, value, "", NoKwargs)
       /\ result' = Done
       /\ history' = HistOther(a)
       /\ UNCHANGED <<exchange_rate, exchange_rate_value, _value,
                      exchange_exchange_rate, pc, pending>>

AccountGetattr(d, attr) ==
    LET a == data_obj[d]
    IN /\ pc[d] = "idle"
       /\ \E l \in _get_active_limits(d) :
            /\ _limits' = [_limits EXCEPT ![d] = l]
            /\ result' = Returned(AccountDAO_getattr(
                            AccountState(account_limits, l, account[a]), attr))
       /\ call' = Call("AccountDAO", d, a, "getattr", attr, None, "", NoKwargs)
       /\ history' = HistOther(a)
       /\ UNCHANGED <<account_limits, account, exchange_rate, exchange_rate_value,
                      _value, exchange_exchange_rate, pc, pending>>

AccountFilter(kwargs) ==
    /\ call' = Call("AccountDAO", "", "", "filter", "", None, "", kwargs)
    /\ result' = AccountDAO_filter(kwargs)
    /\ UNCHANGED <<account_limits, account, _limits, exchange_rate,
                   exchange_rate_value, _value, exchange_exchange_rate,
                   pc, pending, history>>

\* the calls drawn.  On the two instances of account A1: updates of one or
\* both limits, of the expiry time, of a direct field alone; assignments and
\* reads of single fields.  On the instance of account A2: updates of the
\* upper limit.
AccountUpdateKwargs(d) ==
    IF d \in SharedAccountDAOs
    THEN (Kwargs({"upper_limit", "lower_limit"}, AccountFieldValues) \ {NoKwargs})
            \cup (Kwargs({"limits_expiry_time"}, AccountFieldValues) \ {NoKwargs})
            \cup (Kwargs({"balance"}, AccountFieldValues) \ {NoKwargs})
    ELSE Kwargs({"upper_limit"}, AccountFieldValues) \ {NoKwargs}
AccountSetattrFields == {"upper_limit"}
AccountGetattrFields == {"upper_limit", "limits_effective_time"}

AccountOp ==
    \/ \E d \in AccountDAOs : \E kwargs \in AccountUpdateKwargs(d) : AccountUpdate(d, kwargs)
    \/ \E d \in SharedAccountDAOs, attr \in AccountSetattrFields :
          \E value \in AccountFieldValues[attr] : AccountSetattr(d, attr, value)
    \/ \E d \in SharedAccountDAOs, attr \in AccountGetattrFields : AccountGetattr(d, attr)

----------------------------------------------------------------------------
(* ExchangeRateDAO *)

ExchangeRateDAO_db_fields == {"client", "rate", "effective_time", "expiry_time"}

value_map ==
    [f \in {"rate", "effective_time", "expiry_time"} |->
        CASE f = "rate" -> "value"
          [] f = "effective_time" -> "effective_time"
          [] f = "expiry_time" -> "expiry_time"]

\* db_fields entries mapped to None
ExchangeRateDAO_indirect == {"rate", "effective_time", "expiry_time"}


ExchangeRateFieldValues ==
    [f \in ExchangeRateDAO_db_fields |->
        CASE f = "rate" -> RateValues
          [] f \in {"effective_time", "expiry_time"} -> TimeValues
          [] OTHER -> ClientValues]

\* ExchangeRateValue(): a new row as the mapped class and its table give it
ExchangeRateValue(now) ==
    [rate |-> "", value |-> None, effective_time |-> now, expiry_time |-> None,
     is_active |-> TRUE]

ValuesOf(tbl, r) == {i \in DOMAIN tbl : tbl[i].rate = r}
ActiveValues(tbl, r) == {i \in ValuesOf(tbl, r) : tbl[i].is_active}

\* self.value (property getter): the values it may resolve to for instance d
_get_active_value(d) ==
    IF _value[d] = Unset
    THEN first(ActiveValues(exchange_rate_value, data_obj[d]))
    ELSE {_value[d]}

\* new_value, lines 273-274: the old value, when there is one, goes inactive
new_value_deactivate(tbl, v) ==
    IF v # None THEN [tbl EXCEPT ![v].is_active = FALSE] ELSE tbl

\* new_value, lines 275-276: the new row, linked to the rate; nothing is copied
new_value_insert(tbl, r) ==
    Append(tbl, [ExchangeRateValue(clock + 1) EXCEPT !.rate = r])

new_value(tbl, r, v) == new_value_insert(new_value_deactivate(tbl, v), r)

ExchangeRateState(tbl, v, row) == [tbl |-> tbl, value |-> v, row |-> row]

ExchangeRateDAO_setattr(st, r, attr, value) ==
    IF attr \in DOMAIN value_map
    THEN LET st1 == IF st.value = None
                    THEN [st EXCEPT !.tbl = new_value(st.tbl, r, None),
                                    !.value = Len(st.tbl) + 1]
                    ELSE st
         IN [st1 EXCEPT !.tbl[st1.value][value_map[attr]] = value]
    ELSE [st EXCEPT !.row = DAO_setattr(st.row, attr, value)]

\* db.DAO.update: every keyword argument is assigned through __setattr__
RECURSIVE ExchangeRateDAO_setattrs(_, _, _)
ExchangeRateDAO_setattrs(st, r, kwargs) ==
    IF DOMAIN kwargs = {} THEN st
    ELSE LET k == CHOOSE f \in DOMAIN kwargs : TRUE
             rest == [f \in DOMAIN kwargs \ {k} |-> kwargs[f]]
         IN ExchangeRateDAO_setattrs(ExchangeRateDAO_setattr(st, r, k, kwargs[k]), r, rest)

ExchangeRateDAO_update(st, r, kwargs) ==
    LET value_args == DOMAIN kwargs \cap DOMAIN value_map
        st1 == IF value_args # {}
               THEN [st EXCEPT !.tbl = new_value(st.tbl, r, st.value),
                               !.value = Len(st.tbl) + 1]
               ELSE st
    IN ExchangeRateDAO_setattrs(st1, r, kwargs)

ExchangeRateDAO_getattr(st, attr) ==
    IF st.value # None THEN st.tbl[st.value][value_map[attr]] ELSE None

ExchangeRateDAO_filter(kwargs) ==
    LET value_args == DOMAIN kwargs \cap DOMAIN value_map
    IN IF value_args # {}
       THEN Raised("ValueError")
       ELSE ReturnedRows(DAO_filter(exchange_rate, kwargs))

\* db.DAO.get by natural key: whether the ExchangeRate row exists
ExchangeRateDAO_get(name) == name \in DOMAIN exchange_rate

(* ExchangeRateDAO operations, each one call on one instance obtained for
   an existing ExchangeRate *)

ExchangeRateUpdate(d, kwargs) ==
    LET r == data_obj[d]
        touches == DOMAIN kwargs \cap DOMAIN value_map # {}
    IN /\ pc[d] = "idle"
       /\ ExchangeRateDAO_get(r)
       /\ \E v \in (IF touches THEN _get_active_value(d) ELSE {_value[d]}) :
            LET st == ExchangeRateDAO_update(
                         ExchangeRateState(exchange_rate_value, v, exchange_rate[r]), r, kwargs)
            IN /\ exchange_rate_value' = st.tbl
               /\ _value' = [_value EXCEPT ![d] = st.value]
               /\ exchange_rate' = [exchange_rate EXCEPT ![r] = st.row]
       /\ call' = Call("ExchangeRateDAO", d, r, "update", "", None, "", kwargs)
       /\ result' = Done
       /\ history' = IF touches THEN HistWrite(r, kwargs) ELSE HistOther(r)
       /\ UNCHANGED <<account_limits, account, _limits, exchange_exchange_rate,
                      pc, pending>>

ExchangeRateSetattr(d, attr, value) ==
    LET r == data_obj[d]
        touches == attr \in DOMAIN value_map
    IN /\ pc[d] = "idle"
       /\ ExchangeRateDAO_get(r)
       /\ \E v \in (IF touches THEN _get_active_value(d) ELSE {_value[d]}) :
            LET st == ExchangeRateDAO_setattr(
                         ExchangeRateState(exchange_rate_value, v, exchange_rate[r]), r, attr, value)
            IN /\ exchange_rate_value' = st.tbl
               /\ _value' = [_value EXCEPT ![d] = st.value]
               /\ exchange_rate' = [exchange_rate EXCEPT ![r] = st.row]
       /\ call' = Call("ExchangeRateDAO", d, r, "setattr", attr, value, "", NoKwargs)
       /\ result' = Done
       /\ history' = HistOther(r)
       /\ UNCHANGED <<account_limits, account, _limits, exchange_exchange_rate,
                      pc, pending>>

ExchangeRateGetattr(d, attr) ==
    LET r == data_obj[d]
    IN /\ pc[d] = "idle"
       /\ ExchangeRateDAO_get(r)
       /\ \E v \in _get_active_value(d) :
            /\ _value' = [_value EXCEPT ![d] = v]
            /\ result' = Returned(ExchangeRateDAO_getattr(
                            ExchangeRateState(exchange_rate_value, v, exchange_rate[r]), attr))
       /\ call' = Call("ExchangeRateDAO", d, r, "getattr", attr, None, "", NoKwargs)
       /\ history' = HistOther(r)
       /\ UNCHANGED <<account_limits, account, _limits, exchange_rate,
                      exchange_rate_value, exchange_exchange_rate, pc, pending>>

ExchangeRateFilter(kwargs) ==
    /\ call' = Call("ExchangeRateDAO", "", "", "filter", "", None, "", kwargs)
    /\ result' = ExchangeRateDAO_filter(kwargs)
    /\ UNCHANGED <<account_limits, account, _limits, exchange_rate,
                   exchange_rate_value, _value, exchange_exchange_rate,
                   pc, pending, history>>

\* the calls drawn.  On the two instances of rate R1: updates of the rate,
\* the expiry time or both, of a direct field alone; assignments and reads of
\* single fields.  On the instance of rate R2: updates of the rate.
ExchangeRateUpdateKwargs(d) ==
    IF d \in SharedExchangeRateDAOs
    THEN (Kwargs({"rate", "expiry_time"}, ExchangeRateFieldValues) \ {NoKwargs})
            \cup (Kwargs({"client"}, ExchangeRateFieldValues) \ {NoKwargs})
    ELSE Kwargs({"rate"}, ExchangeRateFieldValues) \ {NoKwargs}
ExchangeRateSetattrFields == {"rate"}
ExchangeRateGetattrFields == {"rate", "effective_time"}

ExchangeRateOp ==
    \/ \E d \in ExchangeRateDAOs : \E kwargs \in ExchangeRateUpdateKwargs(d) :
          ExchangeRateUpdate(d, kwargs)
    \/ \E d \in SharedExchangeRateDAOs, attr \in ExchangeRateSetattrFields :
          \E value \in ExchangeRateFieldValues[attr] : ExchangeRateSetattr(d, attr, value)
    \/ \E d \in SharedExchangeRateDAOs, attr \in ExchangeRateGetattrFields :
          ExchangeRateGetattr(d, attr)

----------------------------------------------------------------------------
(* ExchangeDAO *)

\* db_fields entries mapped to None
ExchangeDAO_indirect == {"rate"}

\* Exchange rows (direct columns); this model does not write them
exchange == [x \in Exchanges |-> [source_account |-> 1]]

AssignmentsOf(tbl, x) == {i \in DOMAIN tbl : tbl[i].exchange = x}
ActiveAssignments(tbl, x) == {i \in AssignmentsOf(tbl, x) : tbl[i].is_active}

\* the rows _get_active_exchange_exchange_rate may return (no cache)
_get_active_exchange_exchange_rate(x) ==
    first(ActiveAssignments(exchange_exchange_rate, x))

\* ExchangeExchangeRate(): a new row; is_active comes from the column default
ExchangeExchangeRate == [exchange |-> "", rate |-> "", is_active |-> TRUE]

\* __getattr__('rate'): the names the statement selects.  Its FROM clause is
\*   exchange_rate_table.join(exchange_exchange_rate_table,
\*                            exchange_id == self.data_obj.id, is_active == True)
\* join(right, onclause, isouter): the join condition is the exchange id
\* alone (no condition ties the association row to the rate row) and the
\* is_active comparison lands in isouter, whose truth value depends on the
\* SQLAlchemy build.  Every ExchangeRate row is paired with every association
\* row of the exchange; an outer join keeps unpaired ExchangeRate rows too.
ExchangeDAO_rate_rows(x, isouter) ==
    IF isouter \/ AssignmentsOf(exchange_exchange_rate, x) # {}
    THEN DOMAIN exchange_rate
    ELSE {}

\* result.fetchone()[name]: the first row's name; None[...] raises TypeError
ExchangeDAO_getattr(x, isouter) ==
    LET names == ExchangeDAO_rate_rows(x, isouter)
    IN IF names = {} THEN {Raised("TypeError")} ELSE {ReturnedName(n) : n \in names}

\* __setattr__('rate', value) once ExchangeRateDAO.get(value) has succeeded:
\* the association table when the active row found is old_eer
ExchangeDAO_setattr(tbl, x, value, old_eer) ==
    LET tbl1 == IF old_eer # None THEN [tbl EXCEPT ![old_eer].is_active = FALSE] ELSE tbl
    IN Append(tbl1, [ExchangeExchangeRate EXCEPT !.exchange = x, !.rate = value])

ExchangeDAO_filter(kwargs) ==
    IF "rate" \in DOMAIN kwargs
    THEN Raised("ValueError")
    ELSE ReturnedRows(DAO_filter(exchange, kwargs))

\* (mutant) the old row is deactivated before the new rate is looked up
ExchangeSetRate_lookup_last(x, value) ==
    /\ IF ExchangeRateDAO_get(value)
       THEN /\ \E old_eer \in _get_active_exchange_exchange_rate(x) :
                 exchange_exchange_rate' =
                     ExchangeDAO_setattr(exchange_exchange_rate, x, value, old_eer)
            /\ result' = Done
            /\ history' = HistWrite(x, [f \in {"rate"} |-> value])
       ELSE /\ \E old_eer \in _get_active_exchange_exchange_rate(x) :
                 exchange_exchange_rate' =
                     IF old_eer # None
                     THEN [exchange_exchange_rate EXCEPT ![old_eer].is_active = FALSE]
                     ELSE exchange_exchange_rate
            /\ result' = Raised("NotFound")
            /\ history' = HistOther(x)
    /\ call' = Call("ExchangeDAO", "", x, "setattr", "rate", None, value, NoKwargs)
    /\ UNCHANGED <<account_limits, account, _limits, exchange_rate,
                   exchange_rate_value, _value, pc, pending>>

\* ExchangeDAO.__setattr__('rate', value): the rate is looked up first, by
\* ExchangeRateDAO.get, whose failure leaves the method before any row is
\* touched
ExchangeSetRate(x, value) ==
    /\ IF ExchangeRateDAO_get(value)
       THEN /\ \E old_eer \in _get_active_exchange_exchange_rate(x) :
                 exchange_exchange_rate' =
                     ExchangeDAO_setattr(exchange_exchange_rate, x, value, old_eer)
            /\ result' = Done
            /\ history' = HistWrite(x, [f \in {"rate"} |-> value])
       ELSE /\ result' = Raised("NotFound")
            /\ history' = HistOther(x)
            /\ UNCHANGED exchange_exchange_rate
    /\ call' = Call("ExchangeDAO", "", x, "setattr", "rate", None, value, NoKwargs)
    /\ UNCHANGED <<account_limits, account, _limits, exchange_rate,
                   exchange_rate_value, _value, pc, pending>>

ExchangeGetRate(x) ==
    /\ \E isouter \in BOOLEAN : result' \in ExchangeDAO_getattr(x, isouter)
    /\ call' = Call("ExchangeDAO", "", x, "getattr", "rate", None, "", NoKwargs)
    /\ history' = HistOther(x)
    /\ UNCHANGED <<account_limits, account, _limits, exchange_rate,
                   exchange_rate_value, _value, exchange_exchange_rate, pc, pending>>

ExchangeFilter(kwargs) ==
    /\ call' = Call("ExchangeDAO", "", "", "filter", "", None, "", kwargs)
    /\ result' = ExchangeDAO_filter(kwargs)
    /\ UNCHANGED <<account_limits, account, _limits, exchange_rate,
                   exchange_rate_value, _value, exchange_exchange_rate,
                   pc, pending, history>>

ExchangeOp ==
    \/ \E x \in Exchanges, value \in RateNames : ExchangeSetRate(x, value)
    \/ \E x \in Exchanges : ExchangeGetRate(x)

----------------------------------------------------------------------------

Init ==
    /\ account_limits = <<>>
    /\ account = [a \in Accounts |-> [balance |-> None]]
    /\ _limits = [d \in AccountDAOs |-> Unset]
    /\ exchange_rate \in {[n \in S |-> [client |-> None]] : S \in {{"R1"}, RateNames}}
    /\ exchange_rate_value = <<>>
    /\ _value = [d \in ExchangeRateDAOs |-> Unset]
    /\ exchange_exchange_rate = <<>>
    /\ pc = [d \in AccountDAOs \cup ExchangeRateDAOs |-> "idle"]
    /\ pending = [d \in AccountDAOs \cup ExchangeRateDAOs |-> NoKwargs]
    /\ call = Call("", "", "", "", "", None, "", NoKwargs)
    /\ result = Done
    /\ clock = 0
    /\ history = [p \in Accounts \cup RateNames \cup Exchanges |->
                    [pure |-> TRUE, n |-> 0, last |-> NoKwargs]]

\* one operation, at the next tick of the logical clock
Tick == clock < MaxOps /\ clock' = clock + 1

Next ==
    \/ Tick /\ AccountOp
    \/ Tick /\ ExchangeRateOp
    \/ Tick /\ ExchangeOp

Spec == Init /\ [][Next]_vars

\* the ExchangeDAO operations alone
NextExchange == Tick /\ ExchangeOp

SpecExchange == Init /\ [][NextExchange]_vars

----------------------------------------------------------------------------
(* filter: a class method, checked on its own over drawn criteria.  A
   criterion value may be None (an empty value). *)

ExchangeDAO_db_fields == {"source_account", "rate"}

FilterValues(dom) == [f \in DOMAIN dom |-> dom[f] \cup {None}]

\* criterion values for ExchangeDAO: keys of the referenced rows, as numbers
ExchangeFieldValues == [f \in ExchangeDAO_db_fields |-> {1}]

FilterOp ==
    \/ \E kwargs \in Kwargs(AccountDAO_db_fields, FilterValues(AccountFieldValues)) :
          AccountFilter(kwargs)
    \/ \E kwargs \in Kwargs(ExchangeRateDAO_db_fields, FilterValues(ExchangeRateFieldValues)) :
          ExchangeRateFilter(kwargs)
    \/ \E kwargs \in Kwargs(ExchangeDAO_db_fields, FilterValues(ExchangeFieldValues)) :
          ExchangeFilter(kwargs)

\* stores a filter call may meet: nothing written yet, or one parent of each
\* kind with a first version
InitFilter ==
    /\ \E written \in BOOLEAN :
         /\ account_limits =
              IF written
              THEN <<[account |-> "A1", upper_limit |-> 100, lower_limit |-> None,
                      effective_time |-> 1, expiry_time |-> None, is_active |-> TRUE]>>
              ELSE <<>>
         /\ exchange_rate_value =
              IF written
              THEN <<[rate |-> "R1", value |-> 3, effective_time |-> 1,
                      expiry_time |-> None, is_active |-> TRUE]>>
              ELSE <<>>
         /\ exchange_exchange_rate =
              IF written
              THEN <<[exchange |-> "X1", rate |-> "R1", is_active |-> TRUE]>>
              ELSE <<>>
    /\ account \in [Accounts -> {[balance |-> None], [balance |-> 5]}]
    /\ _limits = [d \in AccountDAOs |-> Unset]
    /\ exchange_rate = [n \in RateNames |-> [client |-> None]]
    /\ _value = [d \in ExchangeRateDAOs |-> Unset]
    /\ pc = [d \in AccountDAOs \cup ExchangeRateDAOs |-> "idle"]
    /\ pending = [d \in AccountDAOs \cup ExchangeRateDAOs |-> NoKwargs]
    /\ call = Call("", "", "", "", "", None, "", NoKwargs)
    /\ result = Done
    /\ clock = 0
    /\ history = [p \in Accounts \cup RateNames \cup Exchanges |->
                    [pure |-> FALSE, n |-> 0, last |-> NoKwargs]]

NextFilter == Tick /\ FilterOp

SpecFilter == InitFilter /\ [][NextFilter]_vars

----------------------------------------------------------------------------
(* Versioned writes step by step: the statements of update -> new_limits /
   new_value run with other instances' statements in between.  Nothing in
   dao.py makes the sequence atomic. *)

MaxSteps == 6             \* statements in a run of the step-by-step writes

\* find-active: update sees versioned arguments and new_limits evaluates
\* self.limits (line 121)
AccountBegin(d, kwargs) ==
    /\ pc[d] = "idle"
    /\ DOMAIN kwargs \cap DOMAIN limits_map # {}
    /\ \E l \in _get_active_limits(d) : _limits' = [_limits EXCEPT ![d] = l]
    /\ pc' = [pc EXCEPT ![d] = "deactivate"]
    /\ pending' = [pending EXCEPT ![d] = kwargs]
    /\ call' = Call("AccountDAO", d, data_obj[d], "update", "", None, "", kwargs)
    /\ result' = Done
    /\ UNCHANGED <<account_limits, account, exchange_rate, exchange_rate_value,
                   _value, exchange_exchange_rate, history>>

\* deactivate-old (lines 122-125)
AccountDeactivate(d) ==
    /\ pc[d] = "deactivate"
    /\ account_limits' = new_limits_deactivate(account_limits, _limits[d])
    /\ pc' = [pc EXCEPT ![d] = "insert"]
    /\ UNCHANGED <<account, _limits, exchange_rate, exchange_rate_value, _value,
                   exchange_exchange_rate, pending, call, result, history>>

\* insert-new (lines 126-132), then db.DAO.update assigns the arguments
AccountInsert(d) ==
    LET a == data_obj[d]
        tbl == new_limits_insert(account_limits, a, _limits[d])
        st == AccountDAO_setattrs(AccountState(tbl, Len(tbl), account[a]), a, pending[d])
    IN /\ pc[d] = "insert"
       /\ account_limits' = st.tbl
       /\ _limits' = [_limits EXCEPT ![d] = st.limits]
       /\ account' = [account EXCEPT ![a] = st.row]
       /\ pc' = [pc EXCEPT ![d] = "idle"]
       /\ pending' = [pending EXCEPT ![d] = NoKwargs]
       /\ history' = HistWrite(a, pending[d])
       /\ UNCHANGED <<exchange_rate, exchange_rate_value, _value,
                      exchange_exchange_rate, call, result>>

\* find-active: new_value evaluates self.value (line 273)
ExchangeRateBegin(d, kwargs) ==
    /\ pc[d] = "idle"
    /\ ExchangeRateDAO_get(data_obj[d])
    /\ DOMAIN kwargs \cap DOMAIN value_map # {}
    /\ \E v \in _get_active_value(d) : _value' = [_value EXCEPT ![d] = v]
    /\ pc' = [pc EXCEPT ![d] = "deactivate"]
    /\ pending' = [pending EXCEPT ![d] = kwargs]
    /\ call' = Call("ExchangeRateDAO", d, data_obj[d], "update", "", None, "", kwargs)
    /\ result' = Done
    /\ UNCHANGED <<account_limits, account, _limits, exchange_rate,
                   exchange_rate_value, exchange_exchange_rate, history>>

\* deactivate-old (line 274)
ExchangeRateDeactivate(d) ==
    /\ pc[d] = "deactivate"
    /\ exchange_rate_value' = new_value_deactivate(exchange_rate_value, _value[d])
    /\ pc' = [pc EXCEPT ![d] = "insert"]
    /\ UNCHANGED <<account_limits, account, _limits, exchange_rate, _value,
                   exchange_exchange_rate, pending, call, result, history>>

\* insert-new (lines 275-276), then db.DAO.update assigns the arguments
ExchangeRateInsert(d) ==
    LET r == data_obj[d]
        tbl == new_value_insert(exchange_rate_value, r)
        st == ExchangeRateDAO_setattrs(
                 ExchangeRateState(tbl, Len(tbl), exchange_rate[r]), r, pending[d])
    IN /\ pc[d] = "insert"
       /\ exchange_rate_value' = st.tbl
       /\ _value' = [_value EXCEPT ![d] = st.value]
       /\ exchange_rate' = [exchange_rate EXCEPT ![r] = st.row]
       /\ pc' = [pc EXCEPT ![d] = "idle"]
       /\ pending' = [pending EXCEPT ![d] = NoKwargs]
       /\ history' = HistWrite(r, pending[d])
       /\ UNCHANGED <<account_limits, account, _limits, exchange_exchange_rate,
                      call, result>>

Step == clock < MaxSteps /\ clock' = clock + 1

\* the update calls drawn for the step-by-step runs
AccountConcKwargs == Kwargs({"upper_limit"}, AccountFieldValues) \ {NoKwargs}
ExchangeRateConcKwargs == Kwargs({"rate"}, ExchangeRateFieldValues) \ {NoKwargs}

NextConc ==
    \/ Step /\ \E d \in AccountDAOs, kwargs \in AccountConcKwargs : AccountBegin(d, kwargs)
    \/ Step /\ \E d \in AccountDAOs : AccountDeactivate(d)
    \/ Step /\ \E d \in AccountDAOs : AccountInsert(d)
    \/ Step /\ \E d \in ExchangeRateDAOs, kwargs \in ExchangeRateConcKwargs :
                  ExchangeRateBegin(d, kwargs)
    \/ Step /\ \E d \in ExchangeRateDAOs : ExchangeRateDeactivate(d)
    \/ Step /\ \E d \in ExchangeRateDAOs : ExchangeRateInsert(d)

SpecConc == Init /\ [][NextConc]_vars

----------------------------------------------------------------------------
(* Fresh accessors: a caller obtains a new instance for a parent (db.DAO.get),
   which has no _limits / _value attribute yet, so its first use queries the
   store. *)

MaxCalls == 4             \* calls in a run with fresh accessors

\* AccountDAO.get(...): instance d is replaced by a newly constructed one
AccountGet(d) ==
    /\ pc[d] = "idle"
    /\ _limits[d] # Unset
    /\ _limits' = [_limits EXCEPT ![d] = Unset]
    /\ call' = Call("AccountDAO", d, data_obj[d], "get", "", None, "", NoKwargs)
    /\ result' = Done
    /\ UNCHANGED <<account_limits, account, exchange_rate, exchange_rate_value,
                   _value, exchange_exchange_rate, pc, pending, clock, history>>

\* ExchangeRateDAO.get(...): instance d is replaced by a newly constructed one
ExchangeRateGet(d) ==
    /\ pc[d] = "idle"
    /\ _value[d] # Unset
    /\ _value' = [_value EXCEPT ![d] = Unset]
    /\ call' = Call("ExchangeRateDAO", d, data_obj[d], "get", "", None, "", NoKwargs)
    /\ result' = Done
    /\ UNCHANGED <<account_limits, account, _limits, exchange_rate,
                   exchange_rate_value, exchange_exchange_rate, pc, pending,
                   clock, history>>

\* one call, at the next tick of the logical clock
TickCall == clock < MaxCalls /\ clock' = clock + 1

NextFresh ==
    \/ TickCall /\ \E d \in SharedAccountDAOs, kwargs \in AccountConcKwargs :
                       AccountUpdate(d, kwargs)
    \/ TickCall /\ \E d \in SharedAccountDAOs : AccountGetattr(d, "upper_limit")
    \/ \E d \in SharedAccountDAOs : AccountGet(d)
    \/ TickCall /\ \E d \in SharedExchangeRateDAOs, kwargs \in ExchangeRateConcKwargs :
                       ExchangeRateUpdate(d, kwargs)
    \/ TickCall /\ \E d \in SharedExchangeRateDAOs : ExchangeRateGetattr(d, "rate")
    \/ \E d \in SharedExchangeRateDAOs : ExchangeRateGet(d)

SpecFresh == Init /\ [][NextFresh]_vars

----------------------------------------------------------------------------
(* A logical operation of one reader: it reads a versioned field, other
   instances write to the same parent in the meantime, it reads the field
   again.  call and result follow the reader: a write made in between by
   another instance leaves them as the reader's last read set them. *)

\* update(kwargs) by instance d, another instance than the reader's, on the
\* reader's account
AccountWriteBetween(d, kwargs) ==
    LET a == data_obj[d]
    IN /\ call.cls = "AccountDAO" /\ call.op = "getattr"
       /\ d # call.dao /\ a = call.parent
       /\ pc[d] = "idle"
       /\ \E l \in _get_active_limits(d) :
            LET st == AccountDAO_update(AccountState(account_limits, l, account[a]), a, kwargs)
            IN /\ account_limits' = st.tbl
               /\ _limits' = [_limits EXCEPT ![d] = st.limits]
               /\ account' = [account EXCEPT ![a] = st.row]
       /\ history' = HistWrite(a, kwargs)
       /\ UNCHANGED <<exchange_rate, exchange_rate_value, _value,
                      exchange_exchange_rate, pc, pending, call, result>>

\* update(kwargs) by instance d, another instance than the reader's, on the
\* reader's rate
ExchangeRateWriteBetween(d, kwargs) ==
    LET r == data_obj[d]
    IN /\ call.cls = "ExchangeRateDAO" /\ call.op = "getattr"
       /\ d # call.dao /\ r = call.parent
       /\ pc[d] = "idle"
       /\ \E v \in _get_active_value(d) :
            LET st == ExchangeRateDAO_update(
                         ExchangeRateState(exchange_rate_value, v, exchange_rate[r]), r, kwargs)
            IN /\ exchange_rate_value' = st.tbl
               /\ _value' = [_value EXCEPT ![d] = st.value]
               /\ exchange_rate' = [exchange_rate EXCEPT ![r] = st.row]
       /\ history' = HistWrite(r, kwargs)
       /\ UNCHANGED <<account_limits, account, _limits, exchange_exchange_rate,
                      pc, pending, call, result>>

\* rate = value assigned through another ExchangeDAO instance of the
\* reader's exchange
ExchangeWriteBetween(x, value) ==
    /\ call.cls = "ExchangeDAO" /\ call.op = "getattr" /\ x = call.parent
    /\ ExchangeRateDAO_get(value)
    /\ \E old_eer \in _get_active_exchange_exchange_rate(x) :
          exchange_exchange_rate' =
              ExchangeDAO_setattr(exchange_exchange_rate, x, value, old_eer)
    /\ history' = HistWrite(x, [f \in {"rate"} |-> value])
    /\ UNCHANGED <<account_limits, account, _limits, exchange_rate,
                   exchange_rate_value, _value, pc, pending, call, result>>

NextOperation ==
    \/ TickCall /\ \E d \in SharedAccountDAOs, kwargs \in AccountConcKwargs :
                       AccountUpdate(d, kwargs)
    \/ TickCall /\ \E d \in SharedAccountDAOs : AccountGetattr(d, "limits_effective_time")
    \/ TickCall /\ \E d \in SharedAccountDAOs, kwargs \in AccountConcKwargs :
                       AccountWriteBetween(d, kwargs)
    \/ TickCall /\ \E d \in SharedExchangeRateDAOs, kwargs \in ExchangeRateConcKwargs :
                       ExchangeRateUpdate(d, kwargs)
    \/ TickCall /\ \E d \in SharedExchangeRateDAOs : ExchangeRateGetattr(d, "effective_time")
    \/ TickCall /\ \E d \in SharedExchangeRateDAOs, kwargs \in ExchangeRateConcKwargs :
                       ExchangeRateWriteBetween(d, kwargs)
    \/ TickCall /\ \E value \in RateNames : ExchangeSetRate("X1", value)
    \/ TickCall /\ ExchangeGetRate("X1")
    \/ TickCall /\ \E value \in RateNames : ExchangeWriteBetween("X1", value)

SpecOperation == Init /\ [][NextOperation]_vars

----------------------------------------------------------------------------
(* Properties *)

\* every field of a version row but its is_active flag
Content(row) == [f \in DOMAIN row \ {"is_active"} |-> row[f]]

\* at most one active version, and none only when there is no version at all
OneActive(all, active) ==
    /\ Cardinality(active) <= 1
    /\ active = {} => all = {}

\* C1: in every state reached by update calls, attribute assignments and
\* reads issued one at a time, each Account, ExchangeRate and Exchange has at
\* most one version row with is_active = TRUE, and none only if no version
\* row was ever created for it (rows are never removed).
C1_OneActivePerParent ==
    /\ \A a \in Accounts :
          OneActive(LimitsOf(account_limits, a), ActiveLimits(account_limits, a))
    /\ \A r \in RateNames :
          OneActive(ValuesOf(exchange_rate_value, r), ActiveValues(exchange_rate_value, r))
    /\ \A x \in Exchanges :
          OneActive(AssignmentsOf(exchange_exchange_rate, x),
                    ActiveAssignments(exchange_exchange_rate, x))

\* C2: while two accessor instances of one parent run their versioned writes
\* statement by statement, every state, intermediate or final, in which the
\* parent has a version row has exactly one active version row for it.
C2_ExactlyOneActiveWhileInterleaved ==
    /\ \A a \in Accounts :
          LimitsOf(account_limits, a) # {}
              => Cardinality(ActiveLimits(account_limits, a)) = 1
    /\ \A r \in RateNames :
          ValuesOf(exchange_rate_value, r) # {}
              => Cardinality(ActiveValues(exchange_rate_value, r)) = 1

\* what C3 asks of a parent whose history is n versioned writes and nothing
\* else: n rows, one active, n - 1 inactive
NRows(all, active, n) ==
    /\ Cardinality(all) = n
    /\ Cardinality(active) = 1
    /\ Cardinality(all \ active) = n - 1

\* C3: a parent that started without a version and has seen N >= 1 versioned
\* writes and nothing else (update calls with a versioned field; for an
\* Exchange, assignments of rate) has exactly N version rows, one active and
\* N - 1 inactive, and the active row holds the values of the latest write.
C3_NWritesNVersions ==
    /\ \A a \in Accounts :
          (history[a].pure /\ history[a].n >= 1) =>
              /\ NRows(LimitsOf(account_limits, a), ActiveLimits(account_limits, a),
                       history[a].n)
              /\ \A i \in ActiveLimits(account_limits, a) :
                    \A f \in DOMAIN history[a].last \cap DOMAIN limits_map :
                        account_limits[i][limits_map[f]] = history[a].last[f]
    /\ \A r \in RateNames :
          (history[r].pure /\ history[r].n >= 1) =>
              /\ NRows(ValuesOf(exchange_rate_value, r),
                       ActiveValues(exchange_rate_value, r), history[r].n)
              /\ \A i \in ActiveValues(exchange_rate_value, r) :
                    \A f \in DOMAIN history[r].last \cap DOMAIN value_map :
                        exchange_rate_value[i][value_map[f]] = history[r].last[f]
    /\ \A x \in Exchanges :
          (history[x].pure /\ history[x].n >= 1) =>
              /\ NRows(AssignmentsOf(exchange_exchange_rate, x),
                       ActiveAssignments(exchange_exchange_rate, x), history[x].n)
              /\ \A i \in ActiveAssignments(exchange_exchange_rate, x) :
                    exchange_exchange_rate[i].rate = history[x].last["rate"]

\* the step just taken is an update call of class cls carrying a versioned
\* field (one of the logical names in map)
VersionedUpdate(cls, map) ==
    /\ clock' # clock
    /\ call'.cls = cls
    /\ call'.op = "update"
    /\ DOMAIN call'.kwargs \cap DOMAIN map # {}

\* C4: when new_limits / new_value runs (in an update call) for a parent that
\* has an active version, the row it appends is active, the prior active row
\* is inactive afterwards, and the new row's upper_limit and lower_limit
\* (limits) or value (rate values) equal the prior active row's wherever the
\* call does not set them.
C4_CopyForward ==
    [][/\ VersionedUpdate("AccountDAO", limits_map) =>
            \A prior \in ActiveLimits(account_limits, call'.parent) :
               /\ Len(account_limits') = Len(account_limits) + 1
               /\ account_limits'[Len(account_limits')].is_active
               /\ ~account_limits'[prior].is_active
               /\ \A f \in {"upper_limit", "lower_limit"} \ DOMAIN call'.kwargs :
                     account_limits'[Len(account_limits')][f] = account_limits[prior][f]
       /\ VersionedUpdate("ExchangeRateDAO", value_map) =>
            \A prior \in ActiveValues(exchange_rate_value, call'.parent) :
               /\ Len(exchange_rate_value') = Len(exchange_rate_value) + 1
               /\ exchange_rate_value'[Len(exchange_rate_value')].is_active
               /\ ~exchange_rate_value'[prior].is_active
               /\ "rate" \notin DOMAIN call'.kwargs =>
                     exchange_rate_value'[Len(exchange_rate_value')].value
                         = exchange_rate_value[prior].value
      ]_vars

\* an update step left tbl with exactly one more row, for the parent, that
\* holds every versioned argument of the call, and left the content of the
\* rows that were there alone (the arguments went to the new row)
OneNewVersion(tbl, tblNext, parentField, map) ==
    /\ Len(tblNext) = Len(tbl) + 1
    /\ tblNext[Len(tblNext)][parentField] = call'.parent
    /\ \A i \in DOMAIN tbl : Content(tblNext[i]) = Content(tbl[i])
    /\ \A f \in DOMAIN call'.kwargs \cap DOMAIN map :
          tblNext[Len(tblNext)][map[f]] = call'.kwargs[f]

\* C5: every update call on an AccountDAO or ExchangeRateDAO that carries
\* versioned fields creates exactly one version row, however many it carries,
\* and the fields go to that new row; an Account without limits updated with
\* upper_limit = 100 and then with lower_limit = -20 has two version rows,
\* the active one holding upper_limit = 100 and lower_limit = -20.
C5_OneVersionPerUpdate ==
    [][/\ VersionedUpdate("AccountDAO", limits_map) =>
            /\ OneNewVersion(account_limits, account_limits', "account", limits_map)
            /\ ( /\ history[call'.parent].pure
                 /\ history[call'.parent].n = 1
                 /\ history[call'.parent].last = [f \in {"upper_limit"} |-> 100]
                 /\ call'.kwargs = [f \in {"lower_limit"} |-> -20] ) =>
                  /\ Cardinality(LimitsOf(account_limits', call'.parent)) = 2
                  /\ \E i \in LimitsOf(account_limits', call'.parent) :
                        /\ ActiveLimits(account_limits', call'.parent) = {i}
                        /\ account_limits'[i].upper_limit = 100
                        /\ account_limits'[i].lower_limit = -20
       /\ VersionedUpdate("ExchangeRateDAO", value_map) =>
            OneNewVersion(exchange_rate_value, exchange_rate_value', "rate", value_map)
      ]_vars

\* C5 witness: the two updates of the example have run on an account
C5_Witness ==
    \E a \in Accounts :
       /\ history[a].pure /\ history[a].n = 2
       /\ history[a].last = [f \in {"lower_limit"} |-> -20]
       /\ call.op = "update" /\ call.parent = a
       /\ \E i \in ActiveLimits(account_limits, a) :
             account_limits[i].upper_limit = 100 /\ account_limits[i].lower_limit = -20

\* the parent of the last call has no version row (none was ever created:
\* rows are never removed)
NoVersion ==
    CASE call.cls = "AccountDAO" -> LimitsOf(account_limits, call.parent) = {}
      [] call.cls = "ExchangeRateDAO" -> ValuesOf(exchange_rate_value, call.parent) = {}
      [] call.cls = "ExchangeDAO" -> AssignmentsOf(exchange_exchange_rate, call.parent) = {}
      [] OTHER -> FALSE

\* C6: reading a versioned field of a parent that never had a version row
\* returns None and raises nothing (limits fields of AccountDAO, value fields
\* of ExchangeRateDAO, rate of ExchangeDAO).
C6_AbsentRead ==
    (call.op = "getattr" /\ NoVersion) => result = Returned(None)

\* the indirect fields (db_fields entries mapped to None) of each class
Indirect(cls) ==
    CASE cls = "AccountDAO" -> AccountDAO_indirect
      [] cls = "ExchangeRateDAO" -> ExchangeRateDAO_indirect
      [] cls = "ExchangeDAO" -> ExchangeDAO_indirect
      [] OTHER -> {}

\* C7: a filter call whose criteria include an indirect field of the class
\* raises the error, whatever the criterion values (None too) and whatever
\* direct criteria come with it; nothing is delegated and no row changes.
C7_FilterRejected ==
    [][(clock' # clock /\ call'.op = "filter"
            /\ DOMAIN call'.kwargs \cap Indirect(call'.cls) # {}) =>
          /\ result' = Raised("ValueError")
          /\ UNCHANGED <<account_limits, account, exchange_rate, exchange_rate_value,
                         exchange_exchange_rate, _limits, _value>>
      ]_vars

\* C7 witness: AccountDAO.filter(balance = 5, upper_limit = None) was refused
C7_Witness ==
    /\ call.cls = "AccountDAO" /\ call.op = "filter"
    /\ call.kwargs = [f \in {"balance", "upper_limit"} |->
                         IF f = "balance" THEN 5 ELSE None]
    /\ result = Raised("ValueError")
    /\ account_limits # <<>>

Max(S) == CHOOSE i \in S : \A j \in S : j <= i

\* C8: once an Exchange whose rate was R1 has been assigned another existing
\* rate R2, the row for R1 is inactive, the newer row for R2 is active, and
\* reading rate returns R2.
C8_Reassigned ==
    \A x \in Exchanges :
       LET all == AssignmentsOf(exchange_exchange_rate, x)
       IN (call.cls = "ExchangeDAO" /\ call.parent = x /\ Cardinality(all) >= 2) =>
             LET new == Max(all)
                 old == Max(all \ {new})
             IN exchange_exchange_rate[old].rate # exchange_exchange_rate[new].rate =>
                   /\ ~exchange_exchange_rate[old].is_active
                   /\ exchange_exchange_rate[new].is_active
                   /\ call.op = "getattr" =>
                         result = ReturnedName(exchange_exchange_rate[new].rate)

\* C9: reading rate on an Exchange that has one active association row
\* returns the name of the ExchangeRate that row references, and no other.
C9_ReadsActiveAssignment ==
    \A x \in Exchanges :
       (call.cls = "ExchangeDAO" /\ call.op = "getattr" /\ call.parent = x) =>
           \A i \in ActiveAssignments(exchange_exchange_rate, x) :
               result = ReturnedName(exchange_exchange_rate[i].rate)

\* C10: assigning to rate a name no ExchangeRate has raises the lookup's
\* not-found error and leaves the association rows as they were.
C10_UnknownRateRejected ==
    [][(clock' # clock /\ call'.cls = "ExchangeDAO" /\ call'.op = "setattr"
            /\ ~ExchangeRateDAO_get(call'.name)) =>
          /\ result' = Raised("NotFound")
          /\ exchange_exchange_rate' = exchange_exchange_rate
      ]_vars

\* C10 witness: the assignment failed on an Exchange that has an active row
C10_Witness ==
    /\ call.cls = "ExchangeDAO" /\ call.op = "setattr"
    /\ result = Raised("NotFound")
    /\ ActiveAssignments(exchange_exchange_rate, call.parent) # {}

\* the step just taken is a read, an update or an assignment of a versioned
\* field through an AccountDAO or ExchangeRateDAO instance that had to look
\* the active version up in the store
LooksUp ==
    /\ clock' # clock
    /\ call'.op \in {"getattr", "update", "setattr"}
    /\ \/ /\ call'.cls = "AccountDAO"
          /\ _limits[call'.dao] = Unset
          /\ (call'.op = "update" => DOMAIN call'.kwargs \cap DOMAIN limits_map # {})
       \/ /\ call'.cls = "ExchangeRateDAO"
          /\ _value[call'.dao] = Unset
          /\ (call'.op = "update" => DOMAIN call'.kwargs \cap DOMAIN value_map # {})

\* the parent of the call being made has more than one active version row
SeveralActive ==
    \/ call'.cls = "AccountDAO"
          /\ Cardinality(ActiveLimits(account_limits, call'.parent)) > 1
    \/ call'.cls = "ExchangeRateDAO"
          /\ Cardinality(ActiveValues(exchange_rate_value, call'.parent)) > 1

\* C11: a read or write of a versioned group that finds more than one active
\* version row for the parent fails with an invariant-violation error; it
\* does not go on with one of the active rows.
C11_SeveralActiveRejected ==
    [][(LooksUp /\ SeveralActive) =>
          /\ result' = Raised("InvariantViolation")
          /\ UNCHANGED <<account_limits, exchange_rate_value>>
      ]_vars

\* the step just taken is a read of the field the same instance read last
SameRead ==
    /\ clock' # clock
    /\ call.op = "getattr" /\ call'.op = "getattr"
    /\ call'.cls = call.cls /\ call'.dao = call.dao
    /\ call'.parent = call.parent /\ call'.attr = call.attr

\* that last read resolved a version: the instance holds one (AccountDAO,
\* ExchangeRateDAO), the exchange has an active assignment and the read
\* returned a rate (ExchangeDAO)
ResolvedVersion ==
    CASE call.cls = "AccountDAO" -> _limits[call.dao] \notin {Unset, None}
      [] call.cls = "ExchangeRateDAO" -> _value[call.dao] \notin {Unset, None}
      [] call.cls = "ExchangeDAO" ->
            /\ ActiveAssignments(exchange_exchange_rate, call.parent) # {}
            /\ result.kind = "value"
      [] OTHER -> FALSE

RowsKept(tbl, tblNext) ==
    \A i \in DOMAIN tbl :
       /\ i \in DOMAIN tblNext
       /\ Content(tblNext[i]) = Content(tbl[i])
       /\ tblNext[i].is_active => tbl[i].is_active

\* C13: no update call and no attribute assignment changes the content of a
\* version row made by an earlier operation (limits: upper_limit,
\* lower_limit, effective_time, expiry_time; values: value, effective_time,
\* expiry_time; assignments: the rate); is_active going from TRUE to FALSE is
\* the only change such a row undergoes.
C13_VersionsImmutable ==
    [][/\ RowsKept(account_limits, account_limits')
       /\ RowsKept(exchange_rate_value, exchange_rate_value')
       /\ RowsKept(exchange_exchange_rate, exchange_exchange_rate')
      ]_vars

\* the step just taken is an assignment of a versioned field (one of the
\* logical names in map) through an instance of class cls
VersionedSetattr(cls, map) ==
    /\ clock' # clock
    /\ call'.cls = cls
    /\ call'.op = "setattr"
    /\ call'.attr \in DOMAIN map

\* C14: every assignment to an indirect field of an AccountDAO or
\* ExchangeRateDAO made on its own (not by an update call) creates a new
\* version row for the parent, whether the parent has an active version or
\* not.
C14_SetattrCreatesVersion ==
    [][/\ VersionedSetattr("AccountDAO", limits_map) =>
            /\ Len(account_limits') = Len(account_limits) + 1
            /\ account_limits'[Len(account_limits')].account = call'.parent
       /\ VersionedSetattr("ExchangeRateDAO", value_map) =>
            /\ Len(exchange_rate_value') = Len(exchange_rate_value) + 1
            /\ exchange_rate_value'[Len(exchange_rate_value')].rate = call'.parent
      ]_vars

\* C15: when new_limits (in an update call) supersedes an active
\* AccountLimits row, the new row's expiry_time is not taken from that row
\* (it is absent unless the call sets it) and neither is its effective_time
\* (it is the time of the call).
C15_ExpiryNotCopied ==
    [][VersionedUpdate("AccountDAO", limits_map) =>
          \A prior \in ActiveLimits(account_limits, call'.parent) :
             ~account_limits'[prior].is_active =>
                LET new == account_limits'[Len(account_limits')]
                IN /\ "limits_expiry_time" \notin DOMAIN call'.kwargs =>
                         new.expiry_time = None
                   /\ "limits_effective_time" \notin DOMAIN call'.kwargs =>
                         new.effective_time = clock'
      ]_vars

\* across the step no row of tbl is removed or reactivated, and a row that is
\* retired is retired as a new row of the same parent is appended
RetiredBySuccessor(tbl, tblNext, parentField) ==
    /\ Len(tblNext) >= Len(tbl)
    /\ \A i \in DOMAIN tbl :
          /\ tblNext[i].is_active => tbl[i].is_active
          /\ (tbl[i].is_active /\ ~tblNext[i].is_active) =>
                /\ Len(tblNext) = Len(tbl) + 1
                /\ tblNext[Len(tblNext)][parentField] = tbl[i][parentField]

C17_NoVersionedFieldNoChange ==
    [][(/\ clock' # clock
        /\ \/ /\ call'.op = "update"
              /\ call'.cls = "AccountDAO"
              /\ DOMAIN call'.kwargs \cap DOMAIN limits_map = {}
           \/ /\ call'.op = "update"
              /\ call'.cls = "ExchangeRateDAO"
              /\ DOMAIN call'.kwargs \cap DOMAIN value_map = {}
           \/ call'.op = "getattr") =>
          UNCHANGED <<account_limits, exchange_rate_value, exchange_exchange_rate>>
      ]_vars

\* C17 witness: update(balance = 5) has run on an account that has limits
C17_Witness ==
    /\ call.cls = "AccountDAO" /\ call.op = "update"
    /\ call.kwargs = [f \in {"balance"} |-> 5]
    /\ account[call.parent].balance = 5
    /\ ActiveLimits(account_limits, call.parent) # {}

\* across the step the rows of tbl of other parents than p are as they were
\* and every row appended is a row of p
OtherParentsKept(tbl, tblNext, parentField, p) ==
    /\ \A i \in DOMAIN tbl :
          tbl[i][parentField] # p => (i \in DOMAIN tblNext /\ tblNext[i] = tbl[i])
    /\ \A i \in DOMAIN tblNext \ DOMAIN tbl : tblNext[i][parentField] = p

\* C18: a versioned write on one parent (update call, attribute assignment,
\* rate assignment) creates, deactivates and modifies no version row of
\* another parent, and every row it creates references the parent of the
\* accessor that wrote.
C18_OtherParentsUntouched ==
    [][(clock' # clock /\ call'.op \in {"update", "setattr"}) =>
          /\ call'.cls = "AccountDAO" =>
                /\ OtherParentsKept(account_limits, account_limits', "account", call'.parent)
                /\ UNCHANGED <<exchange_rate_value, exchange_exchange_rate>>
          /\ call'.cls = "ExchangeRateDAO" =>
                /\ OtherParentsKept(exchange_rate_value, exchange_rate_value', "rate",
                                    call'.parent)
                /\ UNCHANGED <<account_limits, exchange_exchange_rate>>
          /\ call'.cls = "ExchangeDAO" =>
                /\ OtherParentsKept(exchange_exchange_rate, exchange_exchange_rate',
                                    "exchange", call'.parent)
                /\ UNCHANGED <<account_limits, exchange_rate_value>>
      ]_vars

\* C18 witness: account A1 was updated while account A2 had active limits
C18_Witness ==
    /\ call.cls = "AccountDAO" /\ call.op = "update" /\ call.parent = "A1"
    /\ DOMAIN call.kwargs \cap DOMAIN limits_map # {}
    /\ \E i \in DOMAIN account_limits :
          account_limits[i].account = "A2" /\ account_limits[i].is_active
    /\ account_limits[Len(account_limits)].account = "A1"

\* the step just taken is a read of a field through the instance whose
\* write of that field was the call before; x is the value written
ReadsOwnWrite(x) ==
    /\ clock' # clock
    /\ call'.op = "getattr"
    /\ call'.cls = call.cls /\ call'.dao = call.dao
    /\ call.cls \in {"AccountDAO", "ExchangeRateDAO"}
    /\ \/ call.op = "setattr" /\ call.attr = call'.attr /\ x = call.value
       \/ call.op = "update" /\ call'.attr \in DOMAIN call.kwargs
             /\ x = call.kwargs[call'.attr]

\* C19: after an AccountDAO or ExchangeRateDAO instance has written x to a
\* versioned field (update or assignment), the version it holds as current
\* is an active version of its parent, and a read of the field through the
\* same instance, with no write of another instance in between, returns x.
C19_ReadYourWrite ==
    [][/\ (VersionedUpdate("AccountDAO", limits_map)
             \/ VersionedSetattr("AccountDAO", limits_map)) =>
            _limits'[call'.dao] \in ActiveLimits(account_limits', call'.parent)
       /\ (VersionedUpdate("ExchangeRateDAO", value_map)
             \/ VersionedSetattr("ExchangeRateDAO", value_map)) =>
            _value'[call'.dao] \in ActiveValues(exchange_rate_value', call'.parent)
       /\ \A x \in UpperValues \cup LowerValues \cup TimeValues \cup RateValues :
             ReadsOwnWrite(x) => result' = Returned(x)
      ]_vars

====
